---- MODULE Spec2Model ----
(***************************************************************************)
(* Model of evaluator/part1.py: execute_heuristic_search runs the          *)
(* reference ("ta") agent and the candidate ("agent") on the same initial  *)
(* state, measures time and memory with a background memory monitor,       *)
(* replays each solution on the board and scores the candidate in tiers.   *)
(*                                                                         *)
(* Quantities are whole units: seconds for time, megabytes for memory.     *)
(* A failure text is represented by the kind of error it describes.        *)
(***************************************************************************)
EXTENDS Integers, Sequences, FiniteSets, TLC

\* ---------------------------------------------------------------- bounds
MaxLen == 2         \* longest sequence an agent's search returns
MaxTime == 2        \* largest elapsed time of one search (the least is 1)
MaxRss == 1         \* largest resident-memory reading of the process
MaxBoardMem == 2    \* largest peak usage the board reports
MaxLimit == 1       \* largest configured hard limit

Max(a, b) == IF a >= b THEN a ELSE b
Abs(a) == IF a >= 0 THEN a ELSE -a

\* ------------------------------------------------------- board (external)
\* The board is a collaborator outside evaluator/part1.py.  Its instance
\* here: a row of cells, the pawn starts on StartCell, the game ends when
\* the pawn stands on GoalCell; one fence can be placed once.
StartCell == 0
GoalCell == 1
Cells == StartCell..GoalCell

\* board.set_to_state(initial_state, is_initial=True)
InitialBoard == [pawn |-> StartCell, fence |-> FALSE]

\* board.get_move_turns(current_pos, next_pos)
get_move_turns(current_pos, next_pos) == Abs(next_pos - current_pos)

\* board.is_game_end()
is_game_end(b) == b.pawn = GoalCell

\* ------------------------------------------------------------- actions
MOVE(c) == [kind |-> "MOVE", position |-> c]
FENCE == [kind |-> "FENCE", position |-> 0]
\* an object that is not an Action
JUNK == [kind |-> "JUNK", position |-> 0]

Actions == {MOVE(c) : c \in Cells \ {StartCell}} \cup {FENCE}
Objects == Actions \cup {JUNK}

SeqsUpTo(S, n) == UNION {[1..m -> S] : m \in 0..n}

\* float('inf')
Inf == 2 * (MaxLen + 1) + 1

\* ------------------------------------------------- values a search returns
PyList(s) == [type |-> "list", items |-> s, val |-> 0]
PyTuple(s) == [type |-> "tuple", items |-> s, val |-> 0]
PyInt(n) == [type |-> "int", items |-> <<>>, val |-> n]
None == [type |-> "NoneType", items |-> <<>>, val |-> 0]

\* well-formed solutions
Solutions == {PyList(s) : s \in SeqsUpTo(Actions, MaxLen)}

\* values that fail the shape validation: None, numbers, tuples of Actions
\* and lists that end with an object that is no Action
Malformed ==
    {None, PyInt(0), PyInt(1)}
      \cup {PyTuple(s) : s \in SeqsUpTo(Actions, MaxLen - 1)}
      \cup {PyList(Append(s, JUNK)) : s \in SeqsUpTo(Actions, MaxLen - 1)}

ReturnValues == Solutions \cup Malformed

\* Python truth value: `not solution`
Truthy(v) ==
    CASE v.type \in {"list", "tuple"} -> v.items # <<>>
      [] v.type = "int" -> v.val # 0
      [] OTHER -> FALSE

\* `for action in solution` / `*solution` raise TypeError on these
Iterable(v) == v.type \in {"list", "tuple"}

\* isinstance(solution, list)
IsList(v) == v.type = "list"

\* all(isinstance(s, Action) for s in solution)
AllActions(v) == \A i \in 1..Len(v.items) : v.items[i] \in Actions

\* --------------------------------------------------- calculate_total_turns
NoPos == -1

RECURSIVE TurnsLoop_StaleCursor(_, _, _, _)
\* variant: the cursor stays on the pawn's location (line 33 is missing)
TurnsLoop_StaleCursor(b, items, current_pos, total_turns_) ==
    IF items = <<>> THEN total_turns_
    ELSE LET action == Head(items) IN
         IF action.kind = "MOVE"
         THEN TurnsLoop_StaleCursor(b, Tail(items), current_pos,
                                    total_turns_ + get_move_turns(b.pawn, action.position))
         ELSE TurnsLoop_StaleCursor(b, Tail(items), current_pos, total_turns_)

RECURSIVE TurnsLoop(_, _, _, _)
\* the loop over the solution: only MOVE actions cost turns and move the cursor
TurnsLoop(b, items, current_pos, total_turns_) ==
    IF items = <<>> THEN total_turns_
    ELSE LET action == Head(items) IN
         IF action.kind = "MOVE"
         THEN LET cur == IF current_pos = NoPos THEN b.pawn ELSE current_pos
              IN TurnsLoop(b, Tail(items), action.position,
                           total_turns_ + get_move_turns(cur, action.position))
         ELSE TurnsLoop(b, Tail(items), current_pos, total_turns_)

\* variant: the guard of line 17 is missing
calculate_total_turns_NoEmptyGuard(b, sol) == TurnsLoop(b, sol.items, NoPos, 0)

calculate_total_turns(b, sol) ==
    IF ~Truthy(sol) THEN Inf ELSE TurnsLoop(b, sol.items, NoPos, 0)

\* --------------------------------------- board.simulate_action (external)
RECURSIVE simulate_action(_, _)
\* applies the actions in order; stops at the first error.  A pawn move to
\* the pawn's own cell is an illegal move, a second fence an illegal fence,
\* and an object that is no Action is no rule violation but a TypeError.
simulate_action(b, items) ==
    IF items = <<>> THEN [board |-> b, error |-> "None"]
    ELSE LET a == Head(items) IN
         CASE a.kind = "MOVE" ->
                IF a.position = b.pawn
                THEN [board |-> b, error |-> "InvalidMove"]
                ELSE simulate_action([b EXCEPT !.pawn = a.position], Tail(items))
           [] a.kind = "FENCE" ->
                IF b.fence
                THEN [board |-> b, error |-> "InvalidFence"]
                ELSE simulate_action([b EXCEPT !.fence = TRUE], Tail(items))
           [] OTHER -> [board |-> b, error |-> "TypeError"]

\* variant: the board is not reset
set_to_state_Skipped(b) == b

\* board.set_to_state(initial_state, is_initial=True), lines 58 and 135
set_to_state(b) == InitialBoard

\* the state an agent's search leaves the board in: the search works on the
\* board it is given (line 91) and leaves it changed
SearchedBoards == {[pawn |-> GoalCell, fence |-> TRUE]}

\* ------------------------------------------------------------ Performance
\* Performance(failure, outcome, search=None, time, memory, point)
Performance(f, o, t, m, p) ==
    [failure |-> f, outcome |-> o, time |-> t, memory |-> m, point |-> p]

\* no Performance object
NoPerformance == Performance("Absent", 0, 0, 0, 0)

\* round(x * 100) / 100 on whole units
Round2(x) == (x * 100) \div 100

int(flag) == IF flag THEN 1 ELSE 0

\* variant: the comparison with the limit is inverted
LimitExceeded_Inverted(key, value, limit) ==
    key = "agent" /\ limit > value /\ limit > 0

\* variant: the limit is not required to be positive
LimitExceeded_AnyLimit(key, value, limit) == key = "agent" /\ value > limit

\* `k == 'agent' and value > LIMIT > 0`  (lines 112, 121)
LimitExceeded(key, value, limit) == key = "agent" /\ value > limit /\ limit > 0

\* variant: the failure text is not passed on
RunRecord_NoFailure(f, sol, turns, t, m, ended) ==
    Performance("None", IF sol # None THEN turns ELSE Inf, t, m, 1 + int(ended))

\* variant: a failed run has no outcome
RunRecord_FailedIsInf(f, sol, turns, t, m, ended) ==
    Performance(f, IF sol # None /\ f = "None" THEN turns ELSE Inf, t, m,
                1 + int(ended))

\* the run record of one agent (lines 142-149)
RunRecord(f, sol, turns, t, m, ended) ==
    Performance(f, IF sol # None THEN turns ELSE Inf, t, m, 1 + int(ended))

\* ----------------------------------------------------------------- scoring
\* variant: a tie with the reference does not count
BeatingTaOutcome_Strict(res, rs) ==
    IF rs["ta"] # NoPerformance
    THEN (rs["ta"].outcome > res.outcome /\ res.outcome > 0)
           \/ (rs["ta"].outcome = res.outcome /\ res.outcome = 0)
    ELSE TRUE

\* lines 154-161
BeatingTaOutcome(res, rs) ==
    IF rs["ta"] # NoPerformance
    THEN (rs["ta"].outcome >= res.outcome /\ res.outcome > 0)
           \/ (rs["ta"].outcome = res.outcome /\ res.outcome = 0)
    ELSE TRUE

BeatingTaTime(res, rs) ==
    IF rs["ta"] # NoPerformance THEN rs["ta"].time >= res.time ELSE FALSE

BeatingTaMemory(res, rs) ==
    IF rs["ta"] # NoPerformance THEN rs["ta"].memory >= res.memory ELSE FALSE

\* variant: the basic stage does not look at the failure
BasicStage_IgnoresFailure(res, beating_outcome) ==
    res.point > 1 /\ beating_outcome

\* lines 163-166
BasicStage(res, beating_outcome) ==
    res.failure = "None" /\ res.point > 1 /\ beating_outcome

IntermediateStage(res, basic) == basic /\ res.memory <= 1

\* variant: the advanced stage is not gated by the intermediate stage
AdvancedStage_Ungated(intermediate, beating_time) == beating_time

AdvancedStage(intermediate, beating_time) == intermediate /\ beating_time

ChallengeStage(advanced, beating_memory) == advanced /\ beating_memory

NoStages ==
    [basic |-> FALSE, intermediate |-> FALSE, advanced |-> FALSE, challenge |-> FALSE]

Stages(res, rs) ==
    LET basic == BasicStage(res, BeatingTaOutcome(res, rs))
        intermediate == IntermediateStage(res, basic)
        advanced == AdvancedStage(intermediate, BeatingTaTime(res, rs))
        challenge == ChallengeStage(advanced, BeatingTaMemory(res, rs))
    IN [basic |-> basic, intermediate |-> intermediate,
        advanced |-> advanced, challenge |-> challenge]

\* line 174
FinalPoint(st) ==
    1 + int(st.basic) + int(st.intermediate) + int(st.advanced) + int(st.challenge)

\* variant: the outcome of the returned Performance is not the record's
FinalPerformance_NoOutcome(res, st) ==
    Performance(res.failure, Inf, res.time, res.memory, FinalPoint(st))

\* lines 168-175
FinalPerformance(res, st) ==
    Performance(res.failure, res.outcome, res.time, res.memory, FinalPoint(st))

\* ------------------------------------------------------------------ state
VARIABLES
    pc,                  \* position of the primary flow
    agents,              \* keys of the agents dict (line 44-47)
    HARD_TIME_LIMIT,     \* module constant, line 13
    HARD_MEMORY_LIMIT,   \* module constant, line 14
    k,                   \* loop variable of line 53
    board,               \* the GameBoard
    initial_memory,      \* line 55
    peak_memory,         \* cell shared with the monitor threads
    stop_monitoring,     \* cell shared with the monitor threads
    monitor,             \* the monitor thread started for each key
    solution, failure,   \* lines 62, 63
    time_delta, memory_usage, total_turns, is_end,
    results,             \* line 52
    stages,              \* lines 163-166
    result,              \* the Performance returned to the caller
    raised,              \* the error that escaped to the caller
    replayed,            \* keys whose solution replay was started (line 135)
    joined               \* keys whose monitor thread was joined (line 94)

vars == <<pc, agents, HARD_TIME_LIMIT, HARD_MEMORY_LIMIT, k, board,
          initial_memory, peak_memory, stop_monitoring, monitor, solution,
          failure, time_delta, memory_usage, total_turns, is_end, results,
          stages, result, raised, replayed, joined>>

Keys == {"ta", "agent"}

Idle == [pc |-> "off", m |-> 0]

\* lines 38-52 with the limits of lines 13-14
InitWith(limits) ==
    /\ pc = "loop"
    /\ agents \in {{"agent"}, {"ta", "agent"}}
    /\ HARD_TIME_LIMIT \in limits
    /\ HARD_MEMORY_LIMIT \in limits
    /\ k = "ta"
    /\ board = InitialBoard
    /\ initial_memory = 0
    /\ peak_memory = 0
    /\ stop_monitoring = FALSE
    /\ monitor = [key \in Keys |-> Idle]
    /\ solution = None
    /\ failure = "None"
    /\ time_delta = 0
    /\ memory_usage = 0
    /\ total_turns = Inf
    /\ is_end = FALSE
    /\ results = [key \in Keys |-> NoPerformance]
    /\ stages = NoStages
    /\ result = NoPerformance
    /\ raised = "None"
    /\ replayed = {}
    /\ joined = {}

Init == InitWith({0})

\* one limit value configured for both resources
InitLimits == \E limit \in -1..MaxLimit : InitWith({limit})

\* -------------------------------------------------------- monitor thread
\* memory_monitor, lines 82-86, with update_memory, lines 71-77: one loop
\* test, then either the thread ends or the sample is taken and
\* max(peak_memory, current) is computed.  A sample that fails (line 76) is
\* skipped and changes nothing: a stuttering step.
\* variant: the loop of line 83 does not test the stop flag
MonitorSample_IgnoresStop(t) ==
    /\ monitor[t].pc = "run"
    /\ \E current \in 0..MaxRss :
         monitor' = [monitor EXCEPT
                       ![t] = [pc |-> "write", m |-> Max(peak_memory, current)]]
    /\ UNCHANGED <<pc, agents, HARD_TIME_LIMIT, HARD_MEMORY_LIMIT, k, board,
                   initial_memory, peak_memory, stop_monitoring, solution,
                   failure, time_delta, memory_usage, total_turns, is_end,
                   results, stages, result, raised, replayed, joined>>

MonitorSample(t) ==
    /\ monitor[t].pc = "run"
    /\ IF stop_monitoring
       THEN monitor' = [monitor EXCEPT ![t] = [pc |-> "dead", m |-> 0]]
       ELSE \E current \in 0..MaxRss :
              monitor' = [monitor EXCEPT
                            ![t] = [pc |-> "write", m |-> Max(peak_memory, current)]]
    /\ UNCHANGED <<pc, agents, HARD_TIME_LIMIT, HARD_MEMORY_LIMIT, k, board,
                   initial_memory, peak_memory, stop_monitoring, solution,
                   failure, time_delta, memory_usage, total_turns, is_end,
                   results, stages, result, raised, replayed, joined>>

\* the store of line 75, then the sleep of line 86
MonitorWrite(t) ==
    /\ monitor[t].pc = "write"
    /\ peak_memory' = monitor[t].m
    /\ monitor' = [monitor EXCEPT ![t] = [pc |-> "run", m |-> 0]]
    /\ UNCHANGED <<pc, agents, HARD_TIME_LIMIT, HARD_MEMORY_LIMIT, k, board,
                   initial_memory, stop_monitoring, solution,
                   failure, time_delta, memory_usage, total_turns, is_end,
                   results, stages, result, raised, replayed, joined>>

\* ----------------------------------------------------------- primary flow
\* lines 54-89: look the agent up, sample the baseline, reset the board,
\* clear the locals and start the monitor thread
BeginRun ==
    /\ pc = "loop"
    /\ IF k \notin agents
       THEN /\ raised' = "KeyError"
            /\ pc' = "done"
            /\ UNCHANGED <<board, initial_memory, peak_memory, stop_monitoring,
                           monitor, solution, failure>>
       ELSE /\ \E rss \in 0..MaxRss :
                  /\ initial_memory' = rss
                  /\ peak_memory' = rss
            /\ board' = set_to_state(board)
            /\ solution' = None
            /\ failure' = "None"
            /\ stop_monitoring' = FALSE
            /\ monitor' = [monitor EXCEPT ![k] = [pc |-> "run", m |-> 0]]
            /\ pc' = "search"
            /\ UNCHANGED raised
    /\ UNCHANGED <<agents, HARD_TIME_LIMIT, HARD_MEMORY_LIMIT, k, time_delta,
                   memory_usage, total_turns, is_end, results, stages, result,
                   replayed, joined>>

\* line 91 returns a value; line 93
SearchReturns ==
    /\ pc = "search"
    /\ solution' \in ReturnValues
    /\ board' \in SearchedBoards
    /\ stop_monitoring' = TRUE
    /\ pc' = "join"
    /\ UNCHANGED <<agents, HARD_TIME_LIMIT, HARD_MEMORY_LIMIT, k,
                   initial_memory, peak_memory, monitor, failure, time_delta,
                   memory_usage, total_turns, is_end, results, stages, result,
                   raised, replayed, joined>>

\* line 91 raises: lines 100-103
SearchRaises ==
    /\ pc = "search"
    /\ board' \in SearchedBoards
    /\ failure' = "SearchError"
    /\ stop_monitoring' = TRUE
    /\ pc' = "finish"
    /\ UNCHANGED <<agents, HARD_TIME_LIMIT, HARD_MEMORY_LIMIT, k,
                   initial_memory, peak_memory, monitor, solution, time_delta,
                   memory_usage, total_turns, is_end, results, stages, result,
                   raised, replayed, joined>>

\* the failure text after the asserts of lines 96-99
ShapeFailure(sol) ==
    IF IsList(sol) /\ AllActions(sol) THEN "None" ELSE "AssertionError"

\* line 94 ends because the thread has ended or after the timeout of 1 s;
\* then lines 96-103
Join ==
    /\ pc = "join"
    /\ joined' = joined \cup {k}
    /\ failure' = ShapeFailure(solution)
    /\ stop_monitoring' = TRUE
    /\ pc' = "finish"
    /\ UNCHANGED <<agents, HARD_TIME_LIMIT, HARD_MEMORY_LIMIT, k, board,
                   initial_memory, peak_memory, monitor, solution, time_delta,
                   memory_usage, total_turns, is_end, results, stages, result,
                   raised, replayed>>

\* lines 133-140: the replay, from board b, of a solution that is not None.
\* The result has the turn count, the end flag, the failure text, the board
\* and the error that is not caught by line 139.
Replay(b, sol, f) ==
    IF ~Iterable(sol)
    THEN \* a false value passes line 17 and fails at the unpacking of line
         \* 137; a true one fails at the loop of line 23
         [turns |-> IF Truthy(sol) THEN Inf
                    ELSE calculate_total_turns(b, sol),
          ended |-> FALSE, failure |-> f,
          board |-> b, raised |-> "TypeError"]
    ELSE LET turns == calculate_total_turns(b, sol)
             sim == simulate_action(b, sol.items)
         IN CASE sim.error = "None" ->
                   [turns |-> turns, ended |-> is_game_end(sim.board),
                    failure |-> f, board |-> sim.board, raised |-> "None"]
              [] sim.error \in {"InvalidMove", "InvalidFence"} ->
                   [turns |-> turns, ended |-> FALSE, failure |-> sim.error,
                    board |-> sim.board, raised |-> "None"]
              [] OTHER ->
                   [turns |-> turns, ended |-> FALSE, failure |-> f,
                    board |-> sim.board, raised |-> sim.error]

\* line 110
MemoryUsage(board_memory, peak, initial) == Round2(Max(board_memory, peak - initial))

\* lines 105-149: measure, enforce the hard limits on the candidate, replay
\* the solution and record the run; then the next key or, after the
\* candidate's run, the scoring of lines 151-175
FinishRun ==
    /\ pc = "finish"
    /\ \E t \in 1..MaxTime, board_memory \in 0..MaxBoardMem :
         LET mu == MemoryUsage(board_memory, peak_memory, initial_memory)
             rp == Replay(set_to_state(board), solution, failure)
             rec == IF solution = None
                    THEN RunRecord(failure, solution, Inf, Round2(t), mu, FALSE)
                    ELSE RunRecord(rp.failure, solution, rp.turns, Round2(t), mu,
                                   rp.ended)
             rs == [results EXCEPT ![k] = rec]
             st == Stages(rec, rs)
         IN /\ time_delta' = Round2(t)
            /\ memory_usage' = mu
            /\ IF LimitExceeded(k, Round2(t), HARD_TIME_LIMIT)
               THEN /\ result' = Performance("TimeLimit", Inf, Round2(t), mu, 1)
                    /\ pc' = "done"
                    /\ UNCHANGED <<k, board, failure, total_turns, is_end,
                                   results, stages, raised, replayed>>
               ELSE IF LimitExceeded(k, mu, HARD_MEMORY_LIMIT)
               THEN /\ result' = Performance("MemoryLimit", Inf, Round2(t), mu, 1)
                    /\ pc' = "done"
                    /\ UNCHANGED <<k, board, failure, total_turns, is_end,
                                   results, stages, raised, replayed>>
               ELSE /\ IF solution = None
                       THEN /\ is_end' = FALSE
                            /\ total_turns' = Inf
                            /\ UNCHANGED <<board, failure, raised, replayed>>
                       ELSE /\ replayed' = replayed \cup {k}
                            /\ board' = rp.board
                            /\ total_turns' = rp.turns
                            /\ is_end' = rp.ended
                            /\ failure' = rp.failure
                            /\ raised' = rp.raised
                    /\ IF solution # None /\ rp.raised # "None"
                       THEN /\ pc' = "done"
                            /\ UNCHANGED <<k, results, stages, result>>
                       ELSE IF k = "ta"
                       THEN /\ results' = rs
                            /\ k' = "agent"
                            /\ pc' = "loop"
                            /\ UNCHANGED <<stages, result>>
                       ELSE /\ results' = rs
                            /\ stages' = st
                            /\ result' = FinalPerformance(rs["agent"], st)
                            /\ pc' = "done"
                            /\ UNCHANGED k
    /\ UNCHANGED <<agents, HARD_TIME_LIMIT, HARD_MEMORY_LIMIT, initial_memory,
                   peak_memory, stop_monitoring, monitor, solution, joined>>

Next ==
    \/ BeginRun
    \/ SearchReturns
    \/ SearchRaises
    \/ Join
    \/ FinishRun
    \/ \E t \in Keys : MonitorSample(t)
    \/ \E t \in Keys : MonitorWrite(t)

Spec == Init /\ [][Next]_vars

SpecLimits == InitLimits /\ [][Next]_vars

\* the primary flow goes on: every search call returns or raises
Primary == BeginRun \/ SearchReturns \/ SearchRaises \/ Join \/ FinishRun

\* The data that the monitors' termination does not depend on, narrowed to
\* one value per path of the primary flow: no solution, a value whose
\* replay raises TypeError, a solution that fails the replay and one that
\* wins; one elapsed time.
NarrowValues ==
    {None, PyInt(1), PyList(<<FENCE, FENCE>>), PyList(<<MOVE(GoalCell)>>)}

NarrowData == solution \in NarrowValues /\ time_delta <= 1

\* line 91 under the narrowed data
NarrowSearchReturns == SearchReturns /\ NarrowData'

\* lines 105-175 under the narrowed data
NarrowFinishRun == FinishRun /\ NarrowData'

FairNext ==
    \/ BeginRun
    \/ NarrowSearchReturns
    \/ SearchRaises
    \/ Join
    \/ NarrowFinishRun
    \/ \E t \in Keys : MonitorSample(t)
    \/ \E t \in Keys : MonitorWrite(t)

\* a positive limit, so that the early returns of lines 112-129 happen
FairInit == InitWith({MaxLimit})

\* the primary flow and each monitor thread are scheduled fairly
FairSpec ==
    /\ FairInit
    /\ [][FairNext]_vars
    /\ WF_vars(Primary)
    /\ \A t \in Keys : WF_vars(MonitorSample(t)) /\ WF_vars(MonitorWrite(t))

\* ================================================================= claims
\* the evaluation has ended by returning a Performance
Returned == pc = "done" /\ raised = "None" /\ result # NoPerformance

\* the candidate's run has been finished (k leaves "ta" only after the
\* reference run was recorded)
CandidateFinished == pc = "done" /\ k = "agent"

\* the value fails the shape validation of lines 96-99
ShapeInvalid(v) == ~(IsList(v) /\ AllActions(v))

LimitTexts == {"TimeLimit", "MemoryLimit"}

\* C1: every call of execute_heuristic_search ends by returning a
\* Performance and lets no error escape, whether or not the reference agent
\* is available and whatever the searches return or raise.
C1_NoErrorEscapes == pc = "done" => Returned

\* C2: without a reference agent the comparisons against the reference
\* count as satisfied: the evaluation returns, and a candidate with no
\* failure whose replay reaches the terminal state gets point 5 if its
\* memory is <= 1 and point 2 otherwise.
C2_NoReferenceIsVacuous ==
    (pc = "done" /\ "ta" \notin agents)
      => /\ Returned
         /\ (result.failure = "None" /\ results["agent"].point > 1)
              => result.point = IF result.memory <= 1 THEN 5 ELSE 2

\* the run record of `key` treats the run as a failed search
RecordedAsSearchFailure(key) ==
    /\ results[key].failure # "None"
    /\ results[key].outcome = Inf
    /\ results[key].point = 1
    /\ key \notin replayed

\* C3: a search result that fails the shape validation is treated like a
\* search that raised: the failure is captured, the solution is not
\* replayed, and the run record has outcome = +infinity and point = 1.
\* (After the reference run `solution` holds the reference's value until
\* the candidate's run begins.)
C3_ShapeFailureIsSearchFailure ==
    /\ (pc = "loop" /\ k = "agent" /\ ShapeInvalid(solution))
         => RecordedAsSearchFailure("ta")
    /\ (CandidateFinished /\ results["agent"] # NoPerformance
          /\ ShapeInvalid(solution))
         => RecordedAsSearchFailure("agent")

\* C4: if the candidate's search raises, the evaluation returns a
\* Performance with a failure text, outcome = +infinity and point = 1.
C4_CandidateRaises ==
    (CandidateFinished /\ solution = None /\ failure = "SearchError")
      => /\ Returned
         /\ result.failure \notin {"None", "Absent"}
         /\ result.outcome = Inf
         /\ result.point = 1

C4_Witness ==
    /\ CandidateFinished /\ solution = None /\ failure = "SearchError"
    /\ result.failure = "SearchError" /\ result.point = 1
    /\ results["ta"].point = 2

\* the replay of the well-formed solution v raises a rule violation
ReplayViolatesRules(v) ==
    /\ IsList(v) /\ AllActions(v)
    /\ simulate_action(InitialBoard, v.items).error \in {"InvalidMove", "InvalidFence"}

\* C5: if the replay of a well-formed candidate solution raises an illegal
\* move or an illegal fence, the returned Performance has that rule
\* violation as failure, the turn count computed before the replay as
\* outcome (not +infinity), and point = 1.
C5_RuleViolationKeepsTurns ==
    (CandidateFinished /\ ReplayViolatesRules(solution)
       /\ result.failure \notin LimitTexts)
      => /\ Returned
         /\ result.failure = simulate_action(InitialBoard, solution.items).error
         /\ result.outcome = calculate_total_turns(InitialBoard, solution)
         /\ result.outcome < Inf
         /\ result.point = 1

C5_Witness ==
    /\ CandidateFinished /\ solution = PyList(<<FENCE, FENCE>>)
    /\ result.failure = "InvalidFence" /\ result.outcome = 0 /\ result.point = 1

\* the candidate's measurements exceed a positive limit
CandidateOverTime == time_delta > HARD_TIME_LIMIT /\ HARD_TIME_LIMIT > 0
CandidateOverMemory == memory_usage > HARD_MEMORY_LIMIT /\ HARD_MEMORY_LIMIT > 0

\* C6: if the candidate's time exceeds a positive time limit or its memory
\* a positive memory limit, the evaluation returns at once the Performance
\* with the limit's failure text, outcome = +infinity and point = 1; the
\* candidate's solution is not replayed, no run record is made for it and
\* no stage is computed.
C6_LimitShortCircuits ==
    (CandidateFinished /\ (CandidateOverTime \/ CandidateOverMemory))
      => /\ Returned
         /\ result.failure = IF CandidateOverTime THEN "TimeLimit" ELSE "MemoryLimit"
         /\ result.outcome = Inf
         /\ result.point = 1
         /\ result.time = time_delta /\ result.memory = memory_usage
         /\ "agent" \notin replayed
         /\ results["agent"] = NoPerformance
         /\ stages = NoStages

C6_Witness ==
    /\ CandidateFinished /\ ~CandidateOverTime /\ CandidateOverMemory
    /\ result.failure = "MemoryLimit" /\ result.point = 1
    /\ solution = PyList(<<MOVE(GoalCell)>>)
    /\ results["ta"].point = 2

\* C7: the short-circuit is taken only for the candidate and only for a
\* positive limit that the candidate exceeds; otherwise the evaluation goes
\* on to the replay (of a solution that is not None) and to the scoring.
C7_ShortCircuitOnlyOverPositiveLimit ==
    /\ (result.failure \in LimitTexts)
         => (CandidateFinished /\ (CandidateOverTime \/ CandidateOverMemory))
    /\ (CandidateFinished /\ ~(CandidateOverTime \/ CandidateOverMemory))
         => /\ solution # None => "agent" \in replayed
            /\ raised = "None"
                 => /\ results["agent"] # NoPerformance
                    /\ result.point = FinalPoint(stages)
                    /\ result.failure \notin LimitTexts

C7_Witness ==
    /\ CandidateFinished /\ HARD_TIME_LIMIT > 0 /\ HARD_MEMORY_LIMIT > 0
    /\ results["ta"].time > HARD_TIME_LIMIT
    /\ results["ta"].memory > HARD_MEMORY_LIMIT
    /\ "agent" \in replayed /\ result.point > 1

\* the tiers as the claim defines them, from the two run records
TierBasic ==
    LET c == results["agent"]
        r == results["ta"]
    IN /\ c.failure = "None"
       /\ c.point > 1
       /\ \/ (r.outcome >= c.outcome /\ c.outcome > 0)
          \/ (r.outcome = 0 /\ c.outcome = 0)
TierIntermediate == TierBasic /\ results["agent"].memory <= 1
TierAdvanced == TierIntermediate /\ results["ta"].time >= results["agent"].time
TierChallenge == TierAdvanced /\ results["ta"].memory >= results["agent"].memory

TiersSatisfied ==
    {t \in {"basic", "intermediate", "advanced", "challenge"} :
       CASE t = "basic" -> TierBasic
         [] t = "intermediate" -> TierIntermediate
         [] t = "advanced" -> TierAdvanced
         [] OTHER -> TierChallenge}

\* the scoring of lines 151-175 has produced the returned Performance
Scored == Returned /\ results["agent"] # NoPerformance

\* C8: with a reference run present the final point is 1 + the number of
\* satisfied tiers, for all measurements of the two runs.
C8_PointCountsTiers ==
    Scored => (results["ta"] # NoPerformance
                 /\ result.point = 1 + Cardinality(TiersSatisfied))

C8_Witness ==
    /\ Scored /\ result.point = 5
    /\ results["ta"].outcome = results["agent"].outcome
    /\ results["ta"].memory = 1 /\ results["agent"].memory = 1

\* C9: the tiers are gated in order: challenge implies advanced, advanced
\* implies intermediate, intermediate implies basic; the point is in 1..5
\* and a point of n + 1 means that exactly the first n tiers are satisfied.
C9_TiersGated ==
    Returned
      => /\ stages.challenge => stages.advanced
         /\ stages.advanced => stages.intermediate
         /\ stages.intermediate => stages.basic
         /\ result.point \in 1..5
         /\ stages.basic <=> result.point >= 2
         /\ stages.intermediate <=> result.point >= 3
         /\ stages.advanced <=> result.point >= 4
         /\ stages.challenge <=> result.point >= 5

C9_Witness ==
    /\ Scored /\ result.point = 3
    /\ stages.intermediate /\ ~stages.advanced
    /\ results["ta"].memory >= results["agent"].memory

\* C10: if the candidate's search returns the empty list, the returned
\* Performance has outcome = +infinity and point = 1, whatever the
\* reference run produced.
C10_EmptySolution ==
    (CandidateFinished /\ solution = PyList(<<>>))
      => /\ Returned
         /\ result.outcome = Inf
         /\ result.point = 1

C10_Witness ==
    /\ CandidateFinished /\ solution = PyList(<<>>)
    /\ result.failure = "None" /\ result.outcome = Inf /\ result.point = 1
    /\ results["ta"].outcome = Inf /\ results["ta"].failure = "None"

\* C11: when no resource limit short-circuits the evaluation, the returned
\* Performance has the failure, outcome, time and memory of the candidate's
\* own run record; the scoring changes only the point and takes none of
\* the four fields from the reference run.
C11_FinalCopiesCandidateRecord ==
    Scored
      => /\ result.failure = results["agent"].failure
         /\ result.outcome = results["agent"].outcome
         /\ result.time = results["agent"].time
         /\ result.memory = results["agent"].memory
         /\ result.point = FinalPoint(stages)

C11_Witness ==
    /\ Scored
    /\ result.point # results["agent"].point
    /\ results["ta"].failure # results["agent"].failure
    /\ results["ta"].outcome # results["agent"].outcome
    /\ results["ta"].time # results["agent"].time
    /\ results["ta"].memory # results["agent"].memory
    /\ result.outcome = results["agent"].outcome /\ result.outcome < Inf

\* the claim's reading of the turn count: the move actions of the solution
IsMove(a) == a.kind = "MOVE"

\* the cursor's path: the pawn's location, then the target of each move
CursorPath(b, items) ==
    LET moves == SelectSeq(items, IsMove)
    IN <<b.pawn>> \o [i \in 1..Len(moves) |-> moves[i].position]

RECURSIVE PathCost(_)
PathCost(path) ==
    IF Len(path) < 2 THEN 0
    ELSE get_move_turns(path[1], path[2]) + PathCost(Tail(path))

ClaimedTurns(b, sol) ==
    IF sol = None \/ sol.items = <<>> THEN Inf ELSE PathCost(CursorPath(b, sol.items))

\* the keys whose replay has applied calculate_total_turns to `solution`
\* and left the count in total_turns
TurnsComputed ==
    \/ pc = "loop" /\ k = "agent" /\ "ta" \in replayed
    \/ pc = "done" /\ "agent" \in replayed

\* C12: calculate_total_turns gives +infinity for an empty or absent
\* solution and otherwise the sum, over the move actions in order, of the
\* board's turn cost from the cursor to the move's target, the cursor
\* starting at the pawn's location and then being each move's target;
\* other actions cost nothing and leave the cursor alone.
C12_TurnsAreSumOfMoveCosts ==
    /\ (solution = None \/ Iterable(solution))
         => calculate_total_turns(InitialBoard, solution)
              = ClaimedTurns(InitialBoard, solution)
    /\ (TurnsComputed /\ Iterable(solution))
         => total_turns = ClaimedTurns(InitialBoard, solution)

C12_Witness ==
    /\ pc = "done" /\ "agent" \in replayed
    /\ solution = PyList(<<MOVE(GoalCell), MOVE(GoalCell)>>)
    /\ total_turns = get_move_turns(StartCell, GoalCell) + get_move_turns(GoalCell, GoalCell)
    /\ results["ta"].outcome = Inf /\ results["ta"].failure = "None"

\* the monitor thread started for `key` has not ended
Alive(key) == monitor[key].pc \in {"run", "write"}

\* C13: at most one memory monitor is alive at any moment: the monitor
\* started for the reference run has ended before the candidate's search
\* begins, also when the reference search raised or the join timed out.
C13_AtMostOneMonitor ==
    /\ Cardinality({key \in Keys : Alive(key)}) <= 1
    /\ (k = "agent" /\ pc = "search") => ~Alive("ta")

\* C14: on every exit path of a search attempt (return, error, failed
\* shape validation) the monitor has been signalled to stop and joined
\* before the end timestamp of line 106 is taken.
C14_StoppedAndJoinedBeforeTimestamp ==
    pc = "finish" => (stop_monitoring /\ k \in joined)

\* C15: a monitor only ever increases the shared peak: under every
\* interleaving of the monitors' steps (read peak, sample, write the
\* maximum) with the primary flow and with each other, each write by a
\* monitor leaves peak_memory >= the value it had just before the write.
C15_MonitorOnlyIncreasesPeak ==
    [][\A key \in Keys :
         (monitor[key].pc = "write" /\ monitor'[key].pc = "run")
           => peak_memory' >= peak_memory]_vars

\* C16: for both runs, when the run's memory figure is computed (line 110)
\* peak_memory >= the baseline sampled before that run's search, so
\* peak_memory - initial_memory is never negative.
C16_PeakAtLeastBaseline ==
    pc = "finish" => peak_memory >= initial_memory

\* C17: with every search call returning or raising and the monitors
\* scheduled fairly, every monitor that was started eventually ends, and
\* once the evaluation has ended (also by the early return of a resource
\* limit) no monitor goes on forever.
C17_MonitorsTerminate ==
    /\ \A key \in Keys : Alive(key) ~> (monitor[key].pc = "dead")
    /\ (pc = "done") ~> [](\A key \in Keys : ~Alive(key))

C17_Witness ==
    /\ Returned
    /\ monitor["ta"].pc = "dead" /\ monitor["agent"].pc = "dead"
    /\ joined = {"agent"}

\* C18: the board is the initial state when each agent's search is
\* invoked and when each replay starts, so nothing the reference run did
\* to the board (in its search or its replay) reaches the candidate's
\* search or replay: the replay's results are those of a replay from the
\* initial state.
C18_BoardResetBeforeSearchAndReplay ==
    /\ pc = "search" => board = InitialBoard
    /\ (TurnsComputed /\ Iterable(solution))
         => /\ board = simulate_action(InitialBoard, solution.items).board
            /\ total_turns = calculate_total_turns(InitialBoard, solution)
    /\ (TurnsComputed /\ ~Iterable(solution)) => board = InitialBoard

C18_Witness ==
    /\ pc = "done" /\ replayed = {"ta", "agent"}
    /\ results["ta"].point = 2 /\ results["ta"].failure = "None"
    /\ solution = PyList(<<MOVE(GoalCell)>>)
    /\ board = [pawn |-> GoalCell, fence |-> FALSE]
    /\ results["agent"].point = 2 /\ results["agent"].outcome = 1

\* C19: every returned Performance with a failure has point = 1; that is,
\* a returned point > 1 implies that the candidate's run recorded no
\* failure and that its replay ended in a terminal board state.
C19_FailureMeansPointOne ==
    Returned
      => /\ result.failure # "None" => result.point = 1
         /\ result.point > 1
              => /\ results["agent"].failure = "None"
                 /\ "agent" \in replayed
                 /\ is_end /\ is_game_end(board)

C19_Witness ==
    /\ Returned /\ HARD_TIME_LIMIT > 0
    /\ result.failure = "AssertionError" /\ result.point = 1
    /\ results["agent"].point = 2 /\ is_game_end(board)
    /\ results["ta"].point = 2 /\ results["ta"].outcome = results["agent"].outcome

====
